---- MODULE Spec2Model ----
(***************************************************************************)
(* Moodify backend: the OAuth authorization-code flow of routes/auth.js,   *)
(* the session it keeps (express-session, src/index.js) and the            *)
(* /recommendations handler of routes/music.js with the mood mapper.       *)
(*                                                                         *)
(* JavaScript values are modelled as follows.  Opaque strings (tokens,     *)
(* codes, ids) are TLA+ strings; `undefined' and `null' are the two        *)
(* sentinels Undefined and Null.  A number that may be missing is an       *)
(* integer, with UndefNum standing for `undefined' and NaN for             *)
(* not-a-number (all real values are >= 0 wherever these are used, or the  *)
(* operator says otherwise).  Text that the code inspects character by     *)
(* character (the mood label, the limit parameter) is a sequence of        *)
(* one-character strings.                                                  *)
(***************************************************************************)
EXTENDS Integers, Sequences, FiniteSets, TLC

VARIABLES
    store,   \* the session kept by the session store for the one browser session modelled
    now,     \* Date.now()
    pc,      \* pc[r]: where request slot r stands in its handler
    req,     \* req[r]: the request being handled in slot r (its req.session, query, locals)
    last,    \* the request that completed most recently: inputs, session before, response
    flow,    \* the token the last /login issued, the stored one it replaced, and the
             \* callbacks that passed state validation since
    rpc,     \* where the /recommendations request stands in its handler
    rq,      \* the /recommendations request being handled: query, locals
    rresp,   \* the response to the /recommendations request, once it is sent
    logs,    \* the moodlogs collection, in insertion order
    mpc,     \* where the mood request stands in its handler
    mq,      \* the mood request being handled: the document it built
    mresp,   \* the response to the mood request that completed most recently
    spc,     \* where the stats request stands in its handler
    sq       \* the stats request being handled: the query results received so far

vars == <<store, now, pc, req, last, flow, rpc, rq, rresp, logs, mpc, mq, mresp, spc, sq>>

authVars == <<pc, req, last, flow>>
recVars == <<rpc, rq, rresp>>
moodVars == <<logs, mpc, mq, mresp, spc, sq>>

-----------------------------------------------------------------------------
(* JavaScript values *)

Undefined == "undefined"
Null == "null"
UndefNum == -1
NaN == -2
NullNum == -3

\* v || null
OrNull(v) == IF v \in {Undefined, Null, ""} THEN Null ELSE v

\* !!v for a string-or-missing value
Truthy(v) == v \notin {Undefined, Null, ""}

IsNumber(n) == n >= 0

\* the number a comparison converts its operand to: null becomes 0
ToNumber(a) == IF a = NullNum THEN 0 ELSE a

\* a > b and a <= b on numbers that may be undefined, NaN (both false then) or
\* null
JsGt(a, b) == IsNumber(ToNumber(a)) /\ IsNumber(ToNumber(b)) /\ ToNumber(a) > ToNumber(b)
JsLe(a, b) == IsNumber(ToNumber(a)) /\ IsNumber(ToNumber(b)) /\ ToNumber(a) <= ToNumber(b)

-----------------------------------------------------------------------------
(* Bounds and input sets *)

MaxNow == 2000

\* request slots; requests handled one after another all use the first
Reqs == {1, 2}
SeqReqs == {1}

\* the strings generateRandomString can return
Tokens == {"tA", "tB"}
\* the `state' and `code' query parameters a callback can carry
QueryStates == Tokens \cup {"tX", "", Undefined}
QueryCodes == {"code1", "", Undefined}
\* what the provider's token endpoint and /me can answer
AccessTokens == {"at1", "at2"}
RefreshTokens == {"rt1"}
ExpiresIn == {1, 2, UndefNum}
Profiles == {"userA", "userB"}
\* how far the clock moves between two observations
TickSteps == {999, 1001}

-----------------------------------------------------------------------------
(* The session *)

EmptySession ==
    [state |-> Undefined, access_token |-> Undefined, refresh_token |-> Undefined,
     token_expires_at |-> UndefNum, user |-> Undefined]

\* the session is never written back
SaveSession_Never(loaded, sess) == store

\* the session as the next request loads it: the memory store keeps
\* JSON.stringify(session), in which NaN becomes null
Serialized(sess) ==
    [sess EXCEPT !.token_expires_at = IF @ = NaN THEN NullNum ELSE @]

\* express-session at the end of a response: with resave false the session
\* object of the request is written to the store only if the handler changed it
SaveSession(loaded, sess) == IF sess # loaded THEN Serialized(sess) ELSE store

IdleReq ==
    [kind |-> "none", qcode |-> Undefined, qstate |-> Undefined,
     pre |-> EmptySession, sess |-> EmptySession, access_token |-> Undefined,
     calls |-> <<>>, nth |-> 0, t |-> UndefNum, e |-> UndefNum]

NoLast ==
    [kind |-> "none", resp |-> "none", qcode |-> Undefined, qstate |-> Undefined,
     calls |-> <<>>, nth |-> 0, authenticated |-> FALSE, user |-> Null, flip |-> FALSE]

\* the record of a completed request; flip alternates so that every completion
\* changes the record
Completed(kind, resp, q) ==
    [NoLast EXCEPT !.kind = kind, !.resp = resp, !.qcode = q.qcode, !.qstate = q.qstate,
                   !.calls = q.calls, !.nth = q.nth, !.flip = ~last.flip]

AllIdle == \A r \in Reqs : pc[r] = "idle"

\* no /login yet; after one: the token it issued, the different token it found
\* stored and overwrote (if any), the callbacks that passed state validation since
NoFlow == [issued |-> Undefined, overwrote |-> Undefined, passed |-> 0]

-----------------------------------------------------------------------------
(* routes/auth.js *)

\* a token that is still stored is kept
IssueState_KeepFirst(sess, s) ==
    IF sess.state \in Tokens THEN sess ELSE [sess EXCEPT !.state = s]

\* req.session.state = state
IssueState(sess, s) == [sess EXCEPT !.state = s]

\* GET /login
login(r) ==
    /\ pc[r] = "idle"
    /\ \E s \in Tokens :
         /\ store' = IssueState(store, s)
         /\ flow' = [issued |-> s,
                     overwrote |-> IF store.state \in Tokens /\ store.state # s
                                   THEN store.state ELSE Undefined,
                     passed |-> 0]
    /\ last' = Completed("login", "redirect", IdleReq)
    /\ UNCHANGED <<now, pc, req, recVars, moodVars>>

\* the stored state is left in place
ClearState_Skipped(sess) == sess

\* req.session.state = null
ClearState(sess) == [sess EXCEPT !.state = Null]

\* the check without its null test
StateMismatch_NoNullTest(state, storedState) == state # storedState

\* the state check of GET /callback
StateMismatch(state, storedState) == state = Null \/ state # storedState

\* GET /callback up to its first await: state check, clearing of the stored
\* state, code check, token request sent
callbackStart(r) ==
    /\ pc[r] = "idle"
    /\ \E qcode \in QueryCodes, qstate \in QueryStates :
         LET code == OrNull(qcode)
             state == OrNull(qstate)
             storedState == OrNull(store.state)
             q == [IdleReq EXCEPT !.kind = "callback", !.qcode = qcode, !.qstate = qstate,
                                  !.pre = store, !.sess = store, !.nth = flow.passed]
             cleared == ClearState(store)
         IN  IF StateMismatch(state, storedState)
             THEN /\ last' = Completed("callback", "state_mismatch", q)
                  /\ store' = SaveSession(store, store)
                  /\ UNCHANGED <<pc, req, flow>>
             ELSE /\ flow' = [flow EXCEPT !.passed = @ + 1]
                  /\ IF code = Null
                     THEN /\ last' = Completed("callback", "access_denied", q)
                          /\ store' = SaveSession(store, cleared)
                          /\ UNCHANGED <<pc, req>>
                     ELSE /\ req' = [req EXCEPT ![r] =
                                       [q EXCEPT !.sess = cleared, !.calls = <<"token">>]]
                          /\ pc' = [pc EXCEPT ![r] = "token"]
                          /\ UNCHANGED <<store, last>>
    /\ UNCHANGED <<now, recVars, moodVars>>

\* Date.now() + (expires_in * 1000)
ExpiresAt(t, expires_in) == IF expires_in = UndefNum THEN NaN ELSE t + (expires_in * 1000)

\* GET /callback: the token endpoint answers
callbackToken(r) ==
    /\ pc[r] = "token"
    /\ \/ \* the exchange fails: caught, invalid_token
          /\ last' = Completed("callback", "invalid_token", req[r])
          /\ store' = SaveSession(req[r].pre, req[r].sess)
          /\ req' = [req EXCEPT ![r] = IdleReq]
          /\ pc' = [pc EXCEPT ![r] = "idle"]
       \/ \E at \in AccessTokens, rt \in RefreshTokens, e \in ExpiresIn :
          /\ req' = [req EXCEPT ![r] =
                       [@ EXCEPT !.sess = [@ EXCEPT !.access_token = at,
                                                    !.refresh_token = rt,
                                                    !.token_expires_at = ExpiresAt(now, e)],
                                 !.access_token = at, !.t = now, !.e = e,
                                 !.calls = Append(@, "me")]]
          /\ pc' = [pc EXCEPT ![r] = "me"]
          /\ UNCHANGED <<store, last>>
    /\ UNCHANGED <<now, flow, recVars, moodVars>>

\* GET /callback: the profile endpoint answers
callbackProfile(r) ==
    /\ pc[r] = "me"
    /\ \/ \* the profile fetch fails: caught, invalid_token
          /\ last' = Completed("callback", "invalid_token", req[r])
          /\ store' = SaveSession(req[r].pre, req[r].sess)
       \/ \E u \in Profiles :
          /\ last' = Completed("callback", "authenticated", req[r])
          /\ store' = SaveSession(req[r].pre, [req[r].sess EXCEPT !.user = u])
    /\ req' = [req EXCEPT ![r] = IdleReq]
    /\ pc' = [pc EXCEPT ![r] = "idle"]
    /\ UNCHANGED <<now, flow, recVars, moodVars>>

\* the session survives the logout
destroy_Failed(sess) == sess

\* req.session.destroy(): the session is removed from the store, and the next
\* request of the browser starts from an empty session
destroy(sess) == EmptySession

\* GET /logout
logout(r) ==
    /\ pc[r] = "idle"
    /\ store' = destroy(store)
    /\ last' = Completed("logout", "redirect", IdleReq)
    /\ UNCHANGED <<now, pc, req, flow, recVars, moodVars>>

\* the expiry compared with >= instead of >
isAuthenticated_Inclusive(sess, t) ==
    Truthy(sess.access_token) /\ IsNumber(sess.token_expires_at) /\ sess.token_expires_at >= t

\* !!(req.session.access_token && req.session.token_expires_at > Date.now())
isAuthenticated(sess, t) == Truthy(sess.access_token) /\ JsGt(sess.token_expires_at, t)

\* GET /auth/status
authStatus(r) ==
    /\ pc[r] = "idle"
    /\ last' = [Completed("status", "json", IdleReq)
                  EXCEPT !.authenticated = isAuthenticated(store, now),
                         !.user = IF isAuthenticated(store, now) THEN store.user ELSE Null]
    /\ UNCHANGED <<store, now, pc, req, flow, recVars, moodVars>>

\* time passes
Tick ==
    /\ \E d \in TickSteps : now + d <= MaxNow /\ now' = now + d
    /\ UNCHANGED <<store, authVars, recVars, moodVars>>

-----------------------------------------------------------------------------
(* Text: a string is a sequence of one-character strings *)

LowerLetters == <<"a", "b", "c", "d", "e", "f", "g", "h", "i", "j", "k", "l", "m", "n", "o", "p", "q", "r", "s", "t", "u", "v", "w", "x", "y", "z">>
UpperLetters == <<"A", "B", "C", "D", "E", "F", "G", "H", "I", "J", "K", "L", "M", "N", "O", "P", "Q", "R", "S", "T", "U", "V", "W", "X", "Y", "Z">>

\* a query parameter that is not present (req.query.x is undefined)
Absent == <<Undefined>>

IsSpace(c) == c \in {" ", "\t", "\n"}

RECURSIVE IndexIn(_, _, _)
\* the position of c in the sequence letters at or after i, 0 if there is none
IndexIn(c, letters, i) ==
    IF i > Len(letters) THEN 0
    ELSE IF letters[i] = c THEN i
    ELSE IndexIn(c, letters, i + 1)

\* String.prototype.toLowerCase
toLowerCase(s) ==
    [i \in 1..Len(s) |->
        IF IndexIn(s[i], UpperLetters, 1) > 0
        THEN LowerLetters[IndexIn(s[i], UpperLetters, 1)]
        ELSE s[i]]

RECURSIVE TrimStart(_)
TrimStart(s) ==
    IF s # <<>> /\ IsSpace(Head(s)) THEN TrimStart(Tail(s)) ELSE s

RECURSIVE TrimEnd(_)
TrimEnd(s) ==
    IF s # <<>> /\ IsSpace(s[Len(s)]) THEN TrimEnd(SubSeq(s, 1, Len(s) - 1)) ELSE s

\* surrounding whitespace is kept
trim_None(s) == s

\* String.prototype.trim
trim(s) == TrimEnd(TrimStart(s))

\* !!s for a string parameter that may be absent
TruthyStr(s) == s # Absent /\ s # <<>>

-----------------------------------------------------------------------------
(* config/moodMapper.js *)

S_happy == <<"h", "a", "p", "p", "y">>
S_sad == <<"s", "a", "d">>
S_energetic == <<"e", "n", "e", "r", "g", "e", "t", "i", "c">>
S_relaxed == <<"r", "e", "l", "a", "x", "e", "d">>
S_focused == <<"f", "o", "c", "u", "s", "e", "d">>
S_romantic == <<"r", "o", "m", "a", "n", "t", "i", "c">>

\* the property names every object inherits from Object.prototype
ObjectPrototypeKeys ==
    {<<"c", "o", "n", "s", "t", "r", "u", "c", "t", "o", "r">>,
     <<"t", "o", "S", "t", "r", "i", "n", "g">>,
     <<"v", "a", "l", "u", "e", "O", "f">>,
     <<"h", "a", "s", "O", "w", "n", "P", "r", "o", "p", "e", "r", "t", "y">>,
     <<"_", "_", "p", "r", "o", "t", "o", "_", "_">>}

\* ['happy', 'sad', 'energetic', 'relaxed', 'focused', 'romantic']
getSupportedMoods == <<S_happy, S_sad, S_energetic, S_relaxed, S_focused, S_romantic>>

\* the values of moodMap, in tenths (tempo in BPM)
moodMap ==
    [m \in {S_happy, S_sad, S_energetic, S_relaxed, S_focused, S_romantic} |->
        CASE m = S_happy ->
               [target_valence |-> 8, target_energy |-> 8, target_danceability |-> 7,
                min_valence |-> 6, min_energy |-> 6, max_valence |-> 10, max_energy |-> 10]
          [] m = S_sad ->
               [target_valence |-> 2, target_energy |-> 3, target_danceability |-> 3,
                min_valence |-> 0, min_energy |-> 0, max_valence |-> 4, max_energy |-> 5]
          [] m = S_energetic ->
               [target_energy |-> 9, target_valence |-> 6, target_danceability |-> 8,
                target_tempo |-> 120, min_energy |-> 7, min_tempo |-> 100, max_energy |-> 10]
          [] m = S_relaxed ->
               [target_valence |-> 5, target_energy |-> 3, target_tempo |-> 80,
                target_acousticness |-> 6, min_energy |-> 0, max_energy |-> 5,
                max_tempo |-> 100]
          [] m = S_focused ->
               [target_valence |-> 4, target_energy |-> 5, target_instrumentalness |-> 7,
                target_acousticness |-> 4, min_speechiness |-> 0, max_speechiness |-> 1]
          [] m = S_romantic ->
               [target_valence |-> 6, target_energy |-> 4, target_acousticness |-> 5,
                target_danceability |-> 5, min_valence |-> 4, max_energy |-> 6]]

\* obj[key] is truthy: an own property, or one inherited from Object.prototype
HasTruthyProperty(ownKeys, key) == key \in ownKeys \/ key \in ObjectPrototypeKeys

\* the profile read loses its energy target
PropertyValue_NoEnergy(obj, key) ==
    IF key \in DOMAIN obj THEN [obj[key] EXCEPT !.target_energy = -1]
    ELSE [inherited |-> key]

\* obj[key] once it is known to be truthy; an inherited property is not a profile
PropertyValue(obj, key) ==
    IF key \in DOMAIN obj THEN obj[key] ELSE [inherited |-> key]

\* getMoodFeatures(mood): the profile returned, or threw Unsupported mood
getMoodFeatures(mood) ==
    LET normalizedMood == trim(toLowerCase(mood))
    IN  IF ~HasTruthyProperty(DOMAIN moodMap, normalizedMood)
        THEN [threw |-> TRUE, features |-> [inherited |-> <<>>]]
        ELSE [threw |-> FALSE, features |-> PropertyValue(moodMap, normalizedMood)]

-----------------------------------------------------------------------------
(* routes/music.js: pure parts *)

\* the search phrases per mood
searchQueries ==
    [m \in {S_happy, S_sad, S_energetic, S_relaxed, S_focused, S_romantic} |->
        CASE m = S_happy ->
               <<"happy music", "feel good songs", "upbeat playlist", "positive vibes",
                 "good mood music">>
          [] m = S_sad ->
               <<"sad songs", "melancholy music", "heartbreak playlist",
                 "emotional ballads", "crying songs">>
          [] m = S_energetic ->
               <<"workout music", "high energy songs", "pump up playlist", "gym music",
                 "energetic beats">>
          [] m = S_relaxed ->
               <<"chill music", "relaxing songs", "calm playlist", "peaceful music",
                 "ambient chill">>
          [] m = S_focused ->
               <<"study music", "focus playlist", "concentration music",
                 "instrumental focus", "work music">>
          [] m = S_romantic ->
               <<"love songs", "romantic music", "date night playlist",
                 "romantic ballads", "love playlist">>]

\* getMoodSearchQueries(mood): searchQueries[mood.toLowerCase()] || ['music playlist'];
\* an inherited property is truthy and has no element 0
getMoodSearchQueries(mood) ==
    LET key == toLowerCase(mood)
    IN  IF ~HasTruthyProperty(DOMAIN searchQueries, key) THEN <<"music playlist">>
        ELSE IF key \in DOMAIN searchQueries THEN searchQueries[key]
        ELSE <<>>

\* list[0]
FirstOf(list) == IF list = <<>> THEN Undefined ELSE list[1]

DefaultLimit == 20
FallbackLimit == 10
SpotifyMaxLimit == 50
PlaylistsChecked == 3

DecDigits == <<"0", "1", "2", "3", "4", "5", "6", "7", "8", "9">>
HexLetters == <<"a", "b", "c", "d", "e", "f">>

\* the value of a digit in the radix, -1 if it is none
DigitValue(c, radix) ==
    IF IndexIn(c, DecDigits, 1) > 0 THEN IndexIn(c, DecDigits, 1) - 1
    ELSE IF radix = 16 /\ IndexIn(c, HexLetters, 1) > 0 THEN 9 + IndexIn(c, HexLetters, 1)
    ELSE -1

RECURSIVE ParseDigits(_, _, _, _)
\* the longest prefix of digits of s, read in the radix; seen: a digit was read
ParseDigits(s, radix, acc, seen) ==
    IF s = <<>> \/ DigitValue(Head(s), radix) < 0
    THEN [nan |-> ~seen, val |-> acc]
    ELSE ParseDigits(Tail(s), radix, acc * radix + DigitValue(Head(s), radix), TRUE)

\* parseInt(s): leading white space, a sign, 0x for hexadecimal, digits
parseInt(s) ==
    LET t == TrimStart(s)
        neg == t # <<>> /\ Head(t) = "-"
        u == IF t # <<>> /\ Head(t) \in {"-", "+"} THEN Tail(t) ELSE t
        hex == Len(u) >= 2 /\ u[1] = "0" /\ u[2] \in {"x", "X"}
        d == IF hex THEN ParseDigits(toLowerCase(Tail(Tail(u))), 16, 0, FALSE)
             ELSE ParseDigits(u, 10, 0, FALSE)
    IN  [nan |-> d.nan, val |-> IF neg THEN 0 - d.val ELSE d.val]

RECURSIVE NumberToString(_)
\* String(n) for an integer n >= 0
NumberToString(n) ==
    IF n < 10 THEN <<DecDigits[n + 1]>>
    ELSE Append(NumberToString(n \div 10), DecDigits[(n % 10) + 1])

\* p || fallback for a number p that may be NaN
NumberOr(p, fallback) == IF p.nan \/ p.val = 0 THEN fallback ELSE p.val

Min(a, b) == IF a < b THEN a ELSE b
Max(a, b) == IF a > b THEN a ELSE b

\* const { limit = 20 } = req.query; Math.min(parseInt(limit) || 10, 50)
ParamsLimit(limit) ==
    LET given == IF limit = Absent THEN NumberToString(DefaultLimit) ELSE limit
    IN  Min(NumberOr(parseInt(given), FallbackLimit), SpotifyMaxLimit)

\* Array.prototype.slice(0, end)
Slice0(a, end) ==
    SubSeq(a, 1, IF end < 0 THEN Max(Len(a) + end, 0) ELSE Min(end, Len(a)))

\* items.filter(item => item.track && item.track.id): an item is its track's id,
\* Null when it has no track or the track no id
FilterTracks(items) == SelectSeq(items, LAMBDA x : Truthy(x))

RECURSIVE FirstIndex(_, _, _)
\* self.findIndex(t => t.id === id), from position i
FirstIndex(self, id, i) ==
    IF i > Len(self) THEN 0
    ELSE IF self[i] = id THEN i
    ELSE FirstIndex(self, id, i + 1)

RECURSIVE KeepFirsts(_, _)
\* allPlaylistTracks.filter((track, index, self) => index === self.findIndex(...)),
\* over the first i elements
KeepFirsts(self, i) ==
    IF i = 0 THEN <<>>
    ELSE IF FirstIndex(self, self[i], 1) = i THEN Append(KeepFirsts(self, i - 1), self[i])
    ELSE KeepFirsts(self, i - 1)

\* no duplicate is removed
uniqueTracksOf_Unfiltered(allPlaylistTracks) == allPlaylistTracks

uniqueTracksOf(allPlaylistTracks) == KeepFirsts(allPlaylistTracks, Len(allPlaylistTracks))

\* the orders uniqueTracks.sort(() => Math.random() - 0.5) can leave the array in
Shuffles(a) ==
    {s \in [1..Len(a) -> {a[i] : i \in 1..Len(a)}] :
        \A x \in {a[i] : i \in 1..Len(a)} :
            Cardinality({i \in 1..Len(a) : s[i] = x}) = Cardinality({i \in 1..Len(a) : a[i] = x})}

\* every search result is taken
ValidPlaylist_Any(playlist) == TRUE

\* playlist && playlist.id && playlist.name && playlist.owner
ValidPlaylist(playlist) ==
    ~playlist.null /\ Truthy(playlist.id) /\ Truthy(playlist.name) /\ Truthy(playlist.owner)

\* validPlaylists.slice(0, 3)
playlistsToCheckOf(items) == Slice0(SelectSeq(items, ValidPlaylist), PlaylistsChecked)

-----------------------------------------------------------------------------
(* routes/music.js: GET /recommendations *)

MaxSearchItems == 4
MaxTrackItems == 1

\* the mood and limit query parameters a request can carry
MoodInputs ==
    {Absent, <<>>, S_happy, S_sad, S_energetic, S_relaxed, S_focused, S_romantic,
     <<"H", "A", "P", "P", "Y", " ">>, <<" ", "S", "a", "d">>,
     <<"e", "u", "p", "h", "o", "r", "i", "c">>,
     <<"c", "o", "n", "s", "t", "r", "u", "c", "t", "o", "r">>,
     <<"t", "o", "S", "t", "r", "i", "n", "g">>,
     <<"_", "_", "p", "r", "o", "t", "o", "_", "_">>}
LimitInputs ==
    {Absent, <<"a", "b", "c">>, <<"0">>, <<"-", "2">>, <<"1">>, <<"5", "0">>, <<"1", "0", "0", "0">>}

\* what the provider can answer: the status of a failed call (0: no response at
\* all, as on a timeout), the items of a playlist search, the items of a playlist
ErrorStatuses == {401, 500, 0}
Ok == 200
\* the status of a failed call whose catch only logs it (genre seeds, playlist
\* tracks): the handler goes on in the same way whatever the status is
LoggedStatuses == {401}
PlaylistItems ==
    {[null |-> FALSE, id |-> "p1", name |-> "n1", owner |-> "o1"],
     [null |-> FALSE, id |-> "p2", name |-> "n2", owner |-> "o2"],
     [null |-> FALSE, id |-> "p3", name |-> "n3", owner |-> Null],
     [null |-> TRUE, id |-> Null, name |-> Null, owner |-> Null]}
TrackIds == {"a", "b"}
TrackItems == TrackIds \cup {Null}

\* the requests examined: every mood with no limit and with limit 1, and every
\* limit with two of the moods
RecQueries ==
    (MoodInputs \X {Absent, <<"1">>}) \cup ({S_happy, <<" ", "S", "a", "d">>} \X LimitInputs)

SeqsUpTo(S, n) == UNION {[1..k -> S] : k \in 0..n}

IdleRec ==
    [mood |-> Absent, limit |-> Absent, moodFeatures |-> [inherited |-> <<>>],
     built |-> FALSE, paramsLimit |-> 0, q |-> Undefined, playlistsToCheck |-> <<>>,
     idx |-> 0, allPlaylistTracks |-> <<>>, calls |-> <<>>, results |-> <<>>,
     failed |-> FALSE]

NoResponse ==
    [status |-> 0, error |-> "", mood |-> Absent, limit |-> Absent,
     moodFeatures |-> [inherited |-> <<>>], built |-> FALSE, paramsLimit |-> 0,
     tracks |-> <<>>, total |-> 0, loginUrl |-> FALSE, supportedMoods |-> <<>>,
     calls |-> <<>>, results |-> <<>>, failed |-> FALSE, upstream |-> 0,
     fetched |-> {}, given |-> 0]

\* the elements of a sequence
Range(a) == {a[i] : i \in 1..Len(a)}

\* the response to the request q, with what the request did: the calls it sent,
\* whether a call failed, the track ids it was given and how many tracks
Respond(q, status, error) ==
    [NoResponse EXCEPT !.status = status, !.error = error, !.mood = q.mood,
                       !.limit = q.limit, !.moodFeatures = q.moodFeatures,
                       !.built = q.built, !.paramsLimit = q.paramsLimit,
                       !.calls = q.calls, !.results = q.results,
                       !.failed = q.failed,
                       !.fetched = Range(q.allPlaylistTracks),
                       !.given = Len(q.allPlaylistTracks)]

\* the outer catch: 401 from the provider is Token expired, anything else is
\* passed on with the provider's status, 500 when there is none
recCatch(q, status) ==
    IF status = 401
    THEN [Respond(q, 401, "Token expired") EXCEPT !.loginUrl = TRUE]
    ELSE Respond(q, IF status # 0 THEN status ELSE 500,
                 "Failed to fetch recommendations from Spotify")

\* the request is answered
recDone(response) ==
    /\ rresp' = response
    /\ rq' = IdleRec
    /\ rpc' = "done"

\* function requireAuth of routes/music.js: the request is let through
requireAuth(sess, t) ==
    ~(~Truthy(sess.access_token) \/ JsLe(sess.token_expires_at, t))

\* GET /api/music/genres: the guard, then the provider's genre seeds
getGenres ==
    /\ rpc = "idle"
    /\ IF ~requireAuth(store, now)
       THEN recDone([NoResponse EXCEPT !.status = 401, !.error = "Authentication required",
                                       !.loginUrl = TRUE])
       ELSE \/ recDone([NoResponse EXCEPT !.status = Ok,
                                          !.calls = <<<<"genres", store.access_token>>>>,
                                          !.results = <<Ok>>])
            \/ recDone([NoResponse EXCEPT !.status = 500, !.error = "Failed to fetch genres",
                                          !.calls = <<<<"genres", store.access_token>>>>,
                                          !.failed = TRUE])
    /\ UNCHANGED <<store, now, authVars, moodVars>>

\* the check at the head of the /recommendations handler: the request is let through
recommendationsAuth(sess, t) == Truthy(sess.access_token)

\* GET /recommendations up to its first await: authentication, parameters, mood
\* features, params, profile request sent
recStart ==
    /\ rpc = "idle"
    /\ \E query \in RecQueries :
         LET mood == query[1]
             limit == query[2]
             q == [IdleRec EXCEPT !.mood = mood, !.limit = limit]
             f == getMoodFeatures(mood)
         IN  IF ~recommendationsAuth(store, now)
             THEN recDone([Respond(q, 401, "Not authenticated") EXCEPT !.loginUrl = TRUE])
             ELSE IF ~TruthyStr(mood)
             THEN recDone([Respond(q, 400, "Mood parameter is required")
                             EXCEPT !.supportedMoods = getSupportedMoods])
             ELSE IF f.threw
             THEN recDone([Respond(q, 400, "Unsupported mood")
                             EXCEPT !.supportedMoods = getSupportedMoods])
             ELSE /\ rq' = [q EXCEPT !.moodFeatures = f.features, !.built = TRUE,
                                     !.paramsLimit = ParamsLimit(limit),
                                     !.calls = <<<<"me", "">>>>]
                  /\ rpc' = "me"
                  /\ UNCHANGED rresp
    /\ UNCHANGED <<store, now, authVars, moodVars>>

\* the profile test answers; a failure is rethrown as a plain Error
recProfile ==
    /\ rpc = "me"
    /\ \/ /\ rq' = [rq EXCEPT !.calls = Append(@, <<"genres", "">>),
                              !.results = Append(@, Ok)]
          /\ rpc' = "genres"
          /\ UNCHANGED rresp
       \/ \E status \in ErrorStatuses :
          recDone([recCatch([rq EXCEPT !.failed = TRUE,
                                       !.results = Append(@, status)], 0)
                     EXCEPT !.upstream = status])
    /\ UNCHANGED <<store, now, authVars, moodVars>>

\* the genre-seeds test answers; a failure is logged; the playlist search is sent
recGenres ==
    /\ rpc = "genres"
    /\ \E status \in LoggedStatuses \cup {Ok} :
         LET q == FirstOf(getMoodSearchQueries(rq.mood))
         IN  rq' = [rq EXCEPT !.q = q, !.calls = Append(@, <<"search", q>>),
                              !.results = Append(@, status),
                              !.failed = (status # Ok)]
    /\ rpc' = "search"
    /\ UNCHANGED <<store, now, authVars, rresp, moodVars>>

\* the playlist search answers
recSearch ==
    /\ rpc = "search"
    /\ \/ \E status \in ErrorStatuses :
          recDone([recCatch([rq EXCEPT !.failed = TRUE,
                                       !.results = Append(@, status)], status)
                     EXCEPT !.upstream = status])
       \/ \E items \in SeqsUpTo(PlaylistItems, MaxSearchItems) :
          LET playlistsToCheck == playlistsToCheckOf(items)
              answered == [rq EXCEPT !.results = Append(@, Ok)]
          IN  IF Len(playlistsToCheck) = 0
              THEN recDone(Respond(answered, 404, "No playlists found"))
              ELSE /\ rq' = [answered EXCEPT !.playlistsToCheck = playlistsToCheck, !.idx = 1,
                                       !.calls = Append(@, <<"tracks", playlistsToCheck[1].id>>)]
                   /\ rpc' = "tracks"
                   /\ UNCHANGED rresp
    /\ UNCHANGED <<store, now, authVars, moodVars>>

\* after the loop over the playlists: duplicates removed, 404 if nothing is
\* left, else shuffled, cut to params.limit and sent
recFinish(q) ==
    LET uniqueTracks == uniqueTracksOf(q.allPlaylistTracks)
    IN  IF Len(uniqueTracks) = 0
        THEN recDone(Respond(q, 404, "No tracks found"))
        ELSE \E shuffledTracks \in Shuffles(uniqueTracks) :
               LET tracks == Slice0(shuffledTracks, q.paramsLimit)
               IN  recDone([Respond(q, 200, "") EXCEPT !.tracks = tracks,
                                                       !.total = Len(tracks)])

\* the tracks of one playlist arrive, or the request for them fails (logged);
\* then the next playlist is asked for, or the response is built
recTracks ==
    /\ rpc = "tracks"
    /\ \E status \in LoggedStatuses \cup {Ok}, items \in SeqsUpTo(TrackItems, MaxTrackItems) :
         /\ status # Ok => items = <<>>
         /\ LET playlistTracks == FilterTracks(items)
                q == [rq EXCEPT !.allPlaylistTracks = @ \o playlistTracks,
                                !.results = Append(@, status),
                                !.failed = @ \/ (status # Ok)]
            IN  IF rq.idx < Len(rq.playlistsToCheck)
                THEN /\ rq' = [q EXCEPT !.idx = @ + 1,
                                        !.calls = Append(@, <<"tracks",
                                                     rq.playlistsToCheck[rq.idx + 1].id>>)]
                     /\ UNCHANGED <<rpc, rresp>>
                ELSE recFinish(q)
    /\ UNCHANGED <<store, now, authVars, moodVars>>

-----------------------------------------------------------------------------
(* models/MoodLog.js and routes/mood.js: the mood log *)

MaxLogs == 2

\* Date.prototype.getDay and getHours of a time in milliseconds (server clock
\* in UTC; 1 January 1970 was a Thursday)
HourMs == 3600000
DayMs == 86400000
EpochDay == 4
getDay(t) == (EpochDay + (t \div DayMs)) % 7
getHours(t) == (t \div HourMs) % 24

\* the lifetime in seconds of the provider's access tokens, and the times at
\* which the sessions examined were authorized: Saturday 3 January 1970, 23:30
TokenLifetime == 3600
MoodStarts == {257400000}
MoodTickStep == 2400000

\* the enum of the mood path of moodLogSchema
MoodEnum == {S_happy, S_sad, S_energetic, S_relaxed, S_focused, S_romantic}

\* the mood of a JSON request body: missing, a string, or a number
NoMood == [type |-> "undefined", chars |-> <<>>]
StringMood(chars) == [type |-> "string", chars |-> chars]
NumberMood(chars) == [type |-> "number", chars |-> chars]
LogMoods ==
    {NoMood, NumberMood(<<"5">>), StringMood(<<>>), StringMood(<<" ">>),
     StringMood(<<"H", "a", "p", "p", "y">>), StringMood(<<" ", "s", "a", "d", " ">>),
     StringMood(<<"e", "u", "p", "h", "o", "r", "i", "c">>),
     StringMood(<<"c", "o", "n", "s", "t", "r", "u", "c", "t", "o", "r">>)}

\* the recommendedTracks of a request body: missing, or an array of tracks
NoTracks == [present |-> FALSE, items |-> <<>>]
TracksSent(items) == [present |-> TRUE, items |-> items]

\* the sessionData of a request body: missing, or an object in which each of
\* trackCount, tracksClicked and userAgent is present or not
NoSessionData ==
    [present |-> FALSE, trackCount |-> UndefNum, tracksClicked |-> UndefNum,
     userAgent |-> Undefined]
SessionDataSent(trackCount, tracksClicked, userAgent) ==
    [present |-> TRUE, trackCount |-> trackCount, tracksClicked |-> tracksClicked,
     userAgent |-> userAgent]

\* the User-Agent header of the requests
RequestUserAgent == "Mozilla"

\* the bodies of the log requests examined: every mood with nothing else, and
\* one mood with a track and the sessionData objects {tracksClicked: 1} and
\* {trackCount: 9, userAgent: "curl"}
LogBodies ==
    {[mood |-> m, recommendedTracks |-> NoTracks, sessionData |-> NoSessionData] :
        m \in LogMoods}
    \cup
    {[mood |-> StringMood(<<"H", "a", "p", "p", "y">>),
      recommendedTracks |-> TracksSent(<<"a">>), sessionData |-> sd] :
        sd \in {SessionDataSent(UndefNum, 1, Undefined),
                SessionDataSent(9, UndefNum, "curl")}}

\* !mood for a body value
JsonFalsy(v) ==
    \/ v.type = "undefined"
    \/ v.type = "string" /\ v.chars = <<>>
    \/ v.type = "number" /\ v.chars = <<"0">>

\* req.session.user?.id: a profile is identified by its id
UserIdOf(sess) == sess.user

\* the :userId parameters and the query parameters of the read requests
ParamUserIds == Profiles
HistoryMoods == {Absent, <<"H", "a", "p", "p", "y">>}
HistoryPages == {Absent, <<"2">>}
HistoryLimits == {Absent, <<"1">>}
HistoryDays == {Absent, <<"1">>}
DefaultPageSize == 50
DefaultPage == 1

\* the filters and the page of a history request, as the handler parsed them
NoQuery == [mood |-> Absent, since |-> UndefNum, page |-> 0, limit |-> 0]

NoDoc ==
    [userId |-> Undefined, mood |-> <<>>, recommendedTracks |-> <<>>,
     sessionData |-> [trackCount |-> 0, tracksClicked |-> 0, userAgent |-> Undefined],
     timestamp |-> UndefNum, dayOfWeek |-> UndefNum, hourOfDay |-> UndefNum]
IdleMood == [kind |-> "none", mood |-> NoMood, doc |-> NoDoc]
\* the stats request: its user, the number of query results received and the
\* results
IdleStats ==
    [userId |-> Undefined, idx |-> 0, moodCounts |-> <<>>, dayOfWeek |-> {},
     hourOfDay |-> {}, owners |-> {}]
NoMoodResponse ==
    [kind |-> "none", status |-> 0, error |-> "", userId |-> Undefined,
     mood |-> NoMood, queries |-> 0, history |-> <<>>, totalCount |-> 0, totalPages |-> 0,
     hasNextPage |-> FALSE, hasPrevPage |-> FALSE, moodCounts |-> <<>>,
     mostCommonMood |-> Null,
     dayOfWeek |-> {}, hourOfDay |-> {}, owners |-> {}, doc |-> NoDoc,
     query |-> NoQuery, sorted |-> <<>>, flip |-> FALSE]

\* the response to a mood request; flip alternates so that every response
\* changes the record
MoodRespond(kind, status, error, userId) ==
    [NoMoodResponse EXCEPT !.kind = kind, !.status = status, !.error = error,
                           !.userId = userId, !.flip = ~mresp.flip]

\* the response to a POST /api/mood/log carrying mood
LogRespond(status, error, userId, mood) ==
    [MoodRespond("log", status, error, userId) EXCEPT !.mood = mood]

\* one read request is followed per behaviour (the read routes change neither
\* the session nor the collection): a read request was answered, or the stats
\* request is waiting for its queries
ReadAnswered == mresp.kind \in {"history", "stats"}
ReadStarted == ReadAnswered \/ spc # "idle"

moodDone(response) ==
    /\ mresp' = response
    /\ mq' = IdleMood
    /\ mpc' = "idle"

\* function requireAuth of routes/mood.js: the request is let through
requireAuth_mood(sess, t) ==
    ~(~Truthy(sess.access_token) \/ JsLe(sess.token_expires_at, t))

\* a || 0 for a number that may be missing
NumOrZero(a) == IF IsNumber(a) /\ a # 0 THEN a ELSE 0

\* { trackCount: recommendedTracks?.length || 0,
\*   tracksClicked: sessionData?.tracksClicked || 0,
\*   userAgent: req.get('User-Agent'), ...sessionData }: the properties the
\* client's sessionData has replace the ones written before the spread
SessionDataOf(recommendedTracks, sessionData, userAgent) ==
    LET trackCount == IF recommendedTracks.present
                      THEN NumOrZero(Len(recommendedTracks.items)) ELSE 0
        tracksClicked == IF sessionData.present
                         THEN NumOrZero(sessionData.tracksClicked) ELSE 0
    IN  [trackCount |-> IF sessionData.present /\ sessionData.trackCount # UndefNum
                        THEN sessionData.trackCount ELSE trackCount,
         tracksClicked |-> IF sessionData.present /\ sessionData.tracksClicked # UndefNum
                           THEN sessionData.tracksClicked ELSE tracksClicked,
         userAgent |-> IF sessionData.present /\ sessionData.userAgent # Undefined
                       THEN sessionData.userAgent ELSE userAgent]

\* new MoodLog({...}): the setters of the mood path (lowercase, trim), the
\* tracks (recommendedTracks || []), the sessionData and the default of the
\* timestamp path
NewMoodLog(userId, mood, recommendedTracks, sessionData, userAgent, t) ==
    [NoDoc EXCEPT !.userId = userId, !.mood = trim(toLowerCase(mood)),
                  !.recommendedTracks = IF recommendedTracks.present
                                        THEN recommendedTracks.items ELSE <<>>,
                  !.sessionData = SessionDataOf(recommendedTracks, sessionData, userAgent),
                  !.timestamp = t]

\* the validators of moodLogSchema: userId and mood required, mood in the enum
Validates(doc) ==
    /\ Truthy(doc.userId)
    /\ doc.mood # <<>>
    /\ doc.mood \in MoodEnum

\* the pre('save') hook computes the day and hour from the save time
preSave_AtSaveTime(doc, isNew, t) ==
    IF isNew
    THEN [doc EXCEPT !.dayOfWeek = getDay(t), !.hourOfDay = getHours(t)]
    ELSE doc

\* moodLogSchema.pre('save'): day and hour of a new document, from its timestamp
preSave(doc, isNew, t) ==
    IF isNew
    THEN LET date == IF doc.timestamp # UndefNum THEN doc.timestamp ELSE t
         IN  [doc EXCEPT !.dayOfWeek = getDay(date), !.hourOfDay = getHours(date)]
    ELSE doc

\* POST /api/mood/log up to its await: guard, required fields, document built
postLogStart ==
    /\ mpc = "idle"
    /\ ~ReadStarted
    /\ Len(logs) < MaxLogs
    /\ \E body \in LogBodies :
         LET mood == body.mood
             userId == UserIdOf(store)
         IN  IF ~requireAuth_mood(store, now)
             THEN moodDone(LogRespond(401, "Authentication required", userId, mood))
             ELSE IF JsonFalsy(mood)
             THEN moodDone(LogRespond(400, "Missing required field", userId, mood))
             ELSE IF ~Truthy(userId)
             THEN moodDone(LogRespond(400, "User not found", userId, mood))
             ELSE IF mood.type # "string"
             THEN moodDone(LogRespond(500, "Failed to log mood", userId, mood))
             ELSE /\ mq' = [kind |-> "log", mood |-> mood,
                            doc |-> NewMoodLog(userId, mood.chars, body.recommendedTracks,
                                               body.sessionData, RequestUserAgent, now)]
                  /\ mpc' = "save"
                  /\ UNCHANGED mresp
    /\ UNCHANGED <<store, now, authVars, recVars, logs, spc, sq>>

\* moodLog.save(): validation, the pre-save hook, the insert (which the store
\* can refuse), and the response
postLogSave ==
    /\ mpc = "save"
    /\ ~ReadAnswered
    /\ IF ~Validates(mq.doc)
       THEN /\ moodDone(LogRespond(400, "Validation error", mq.doc.userId, mq.mood))
            /\ UNCHANGED logs
       ELSE \/ LET saved == preSave(mq.doc, TRUE, now)
               IN  /\ logs' = Append(logs, saved)
                   /\ moodDone([LogRespond(201, "", saved.userId, mq.mood)
                                  EXCEPT !.doc = saved, !.queries = 1])
            \/ /\ moodDone([LogRespond(500, "Failed to log mood", mq.doc.userId, mq.mood)
                              EXCEPT !.queries = 1])
               /\ UNCHANGED logs
    /\ UNCHANGED <<store, now, authVars, recVars, spc, sq>>

\* the check of the read routes is skipped
AccessDenied_Never(userId, sess) == FALSE

\* userId !== req.session.user?.id
AccessDenied(userId, sess) == userId # UserIdOf(sess)

\* the entries of the collection that a query { userId, mood? } matches
Matching(collection, userId, mood) ==
    SelectSeq(collection,
              LAMBDA e : e.userId = userId /\ (mood # Absent => e.mood = mood))

\* { timestamp: { $gte: startDate } }, when the request asked for it
Since(entries, startDate) ==
    SelectSeq(entries, LAMBDA e : startDate # UndefNum => e.timestamp >= startDate)

\* startDate.setDate(startDate.getDate() - days) on the server clock (UTC)
StartDate(t, days) == t - (days * DayMs)

\* sort({ timestamp: -1 }): the orders of the entries with no earlier entry
\* before a later one (entries of equal timestamp in any order)
SortsByTimestampDesc(entries) ==
    {a \in Shuffles(entries) :
        \A i, j \in 1..Len(a) : i < j => a[i].timestamp >= a[j].timestamp}

\* skip(skip).limit(limit) for a positive limit
SkipLimit(a, skip, limit) ==
    [i \in 1..Max(0, Min(limit, Len(a) - skip)) |-> a[i + skip]]

\* the division rounds down
CeilDiv_Floor(a, b) == a \div b

\* Math.ceil(a / b) for a >= 0, b > 0
CeilDiv(a, b) == (a + b - 1) \div b

\* $group by a field with $sum: 1
GroupCount(entries, field) ==
    {[_id |-> k, count |-> Cardinality({i \in 1..Len(entries) : entries[i][field] = k})] :
        k \in {entries[i][field] : i \in 1..Len(entries)}}

\* GET /api/mood/history/:userId
getHistory ==
    /\ mpc = "idle"
    /\ ~ReadStarted
    /\ \E userId \in ParamUserIds, qmood \in HistoryMoods,
          qpage \in HistoryPages, qlimit \in HistoryLimits, qdays \in HistoryDays :
         IF ~requireAuth_mood(store, now)
         THEN moodDone(MoodRespond("history", 401, "Authentication required", userId))
         ELSE IF AccessDenied(userId, store)
         THEN moodDone(MoodRespond("history", 403, "Access denied", userId))
         ELSE LET mood == IF TruthyStr(qmood) THEN trim(toLowerCase(qmood)) ELSE Absent
                  page == IF qpage = Absent THEN DefaultPage ELSE parseInt(qpage).val
                  limit == IF qlimit = Absent THEN DefaultPageSize ELSE parseInt(qlimit).val
                  since == IF TruthyStr(qdays)
                           THEN StartDate(now, parseInt(qdays).val)
                           ELSE UndefNum
                  skip == (page - 1) * limit
                  matched == Since(Matching(logs, userId, mood), since)
                  totalCount == Len(matched)
                  totalPages == CeilDiv(totalCount, limit)
              IN  \/ \E sorted \in SortsByTimestampDesc(matched) :
                       moodDone([MoodRespond("history", 200, "", userId)
                                   EXCEPT !.queries = 2,
                                          !.query = [mood |-> mood, since |-> since,
                                                     page |-> page, limit |-> limit],
                                          !.sorted = sorted,
                                          !.history = SkipLimit(sorted, skip, limit),
                                          !.totalCount = totalCount,
                                          !.totalPages = totalPages,
                                          !.hasNextPage = (page < totalPages),
                                          !.hasPrevPage = (page > 1),
                                          !.owners = {matched[i].userId : i \in 1..Len(matched)}])
                  \/ moodDone([MoodRespond("history", 500, "Failed to fetch mood history", userId)
                                 EXCEPT !.queries = 2])
    /\ UNCHANGED <<store, now, authVars, recVars, logs, spc, sq>>

\* { $sort: { count: -1 } }: the orders of the groups with no smaller count
\* before a larger one (groups of equal count in any order)
SortsByCountDesc(groups) ==
    {a \in [1..Cardinality(groups) -> groups] :
        /\ \A g \in groups : \E i \in 1..Cardinality(groups) : a[i] = g
        /\ \A i, j \in 1..Cardinality(groups) : i < j => a[i].count >= a[j].count}

\* the five queries of the stats handler, in the order of its Promise.all
StatsQueries == <<"getUserStats", "getUserTrends", "dayOfWeek", "hourOfDay", "countDocuments">>

\* the response to a stats request is sent; a log request in flight stays so
statsDone(response) ==
    /\ mresp' = response
    /\ sq' = IdleStats
    /\ spc' = "idle"
    /\ UNCHANGED <<mpc, mq>>

\* GET /api/mood/stats/:userId up to its await: the guard, the owner check, the
\* five queries sent
getStats ==
    /\ ~ReadStarted
    /\ \E userId \in ParamUserIds :
         IF ~requireAuth_mood(store, now)
         THEN statsDone(MoodRespond("stats", 401, "Authentication required", userId))
         ELSE IF AccessDenied(userId, store)
         THEN statsDone(MoodRespond("stats", 403, "Access denied", userId))
         ELSE /\ sq' = [IdleStats EXCEPT !.userId = userId]
              /\ spc' = "queries"
              /\ UNCHANGED <<mpc, mq, mresp>>
    /\ UNCHANGED <<store, now, authVars, recVars, logs>>

\* the store answers the next of the five queries from the collection as it is
\* at that moment (or fails, and the handler answers 500); with the last answer
\* the handler builds the response
statsQuery ==
    /\ spc = "queries"
    /\ ~ReadAnswered
    /\ LET matched == Matching(logs, sq.userId, Absent)
           query == StatsQueries[sq.idx + 1]
           owners == sq.owners \cup {matched[i].userId : i \in 1..Len(matched)}
       IN  \/ statsDone([MoodRespond("stats", 500, "Failed to fetch mood statistics", sq.userId)
                           EXCEPT !.queries = 5])
           \/ /\ query = "getUserStats"
              /\ \E moodCounts \in SortsByCountDesc(GroupCount(matched, "mood")) :
                   sq' = [sq EXCEPT !.idx = @ + 1, !.moodCounts = moodCounts,
                                    !.owners = owners]
              /\ UNCHANGED <<spc, mpc, mq, mresp>>
           \/ /\ query = "getUserTrends"
              /\ sq' = [sq EXCEPT !.idx = @ + 1, !.owners = owners]
              /\ UNCHANGED <<spc, mpc, mq, mresp>>
           \/ /\ query = "dayOfWeek"
              /\ sq' = [sq EXCEPT !.idx = @ + 1, !.owners = owners,
                                  !.dayOfWeek = GroupCount(matched, "dayOfWeek")]
              /\ UNCHANGED <<spc, mpc, mq, mresp>>
           \/ /\ query = "hourOfDay"
              /\ sq' = [sq EXCEPT !.idx = @ + 1, !.owners = owners,
                                  !.hourOfDay = GroupCount(matched, "hourOfDay")]
              /\ UNCHANGED <<spc, mpc, mq, mresp>>
           \/ /\ query = "countDocuments"
              /\ statsDone([MoodRespond("stats", 200, "", sq.userId)
                              EXCEPT !.queries = 5,
                                     !.totalCount = Len(matched),
                                     !.moodCounts = sq.moodCounts,
                                     !.mostCommonMood =
                                         IF sq.moodCounts = <<>> THEN Null
                                         ELSE sq.moodCounts[1]._id,
                                     !.dayOfWeek = sq.dayOfWeek,
                                     !.hourOfDay = sq.hourOfDay,
                                     !.owners = owners])
    /\ UNCHANGED <<store, now, authVars, recVars, logs>>

\* time passes, until the session has expired
MoodTick ==
    /\ now < store.token_expires_at
    /\ ~ReadStarted
    /\ now' = now + MoodTickStep
    /\ UNCHANGED <<store, authVars, recVars, logs, mpc, mq, mresp, spc, sq>>

-----------------------------------------------------------------------------
(* Specifications *)

Init ==
    /\ store = EmptySession
    /\ now = 0
    /\ pc = [r \in Reqs |-> "idle"]
    /\ req = [r \in Reqs |-> IdleReq]
    /\ last = NoLast
    /\ flow = NoFlow
    /\ rpc = "idle"
    /\ rq = IdleRec
    /\ rresp = NoResponse
    /\ logs = <<>>
    /\ mpc = "idle"
    /\ mq = IdleMood
    /\ mresp = NoMoodResponse
    /\ spc = "idle"
    /\ sq = IdleStats

\* requests of the session handled one after another
Next ==
    \/ \E r \in SeqReqs : AllIdle /\ login(r)
    \/ \E r \in SeqReqs : AllIdle /\ callbackStart(r)
    \/ \E r \in SeqReqs : callbackToken(r)
    \/ \E r \in SeqReqs : callbackProfile(r)
    \/ \E r \in SeqReqs : AllIdle /\ logout(r)
    \/ \E r \in SeqReqs : AllIdle /\ authStatus(r)
    \/ Tick

Spec == Init /\ [][Next]_vars

\* requests of a session that follow a /login, handled with overlapping
\* lifetimes: each request works on the session as it loaded it, and the session
\* is written back when the response ends
ConcNext ==
    \/ \E r \in Reqs : callbackStart(r)
    \/ \E r \in Reqs : callbackToken(r)
    \/ \E r \in Reqs : callbackProfile(r)
    \/ \E r \in Reqs : logout(r)
    \/ \E r \in Reqs : authStatus(r)

\* a session in which /login has just issued a token
ConcInit ==
    /\ \E s \in Tokens :
         /\ store = IssueState(EmptySession, s)
         /\ flow = [NoFlow EXCEPT !.issued = s]
    /\ now = 0
    /\ pc = [r \in Reqs |-> "idle"]
    /\ req = [r \in Reqs |-> IdleReq]
    /\ last = NoLast
    /\ rpc = "idle"
    /\ rq = IdleRec
    /\ rresp = NoResponse
    /\ logs = <<>>
    /\ mpc = "idle"
    /\ mq = IdleMood
    /\ mresp = NoMoodResponse
    /\ spc = "idle"
    /\ sq = IdleStats

SpecConc == ConcInit /\ [][ConcNext]_vars

\* a session after a successful callback at time t
AuthorizedSession(at, rt, t, e, u) ==
    [ClearState(EmptySession) EXCEPT !.access_token = at, !.refresh_token = rt,
                                     !.token_expires_at = ExpiresAt(t, e), !.user = u]

\* the sessions and times at which a /recommendations request is examined: no
\* session, an unexpired one, one at its expiry
RecInit ==
    /\ \/ store = EmptySession /\ now = 0
       \/ /\ store = AuthorizedSession("at1", "rt1", 0, 1, "userA")
          /\ now \in {999, 1000}
    /\ pc = [r \in Reqs |-> "idle"]
    /\ req = [r \in Reqs |-> IdleReq]
    /\ last = NoLast
    /\ flow = NoFlow
    /\ rpc = "idle"
    /\ rq = IdleRec
    /\ rresp = NoResponse
    /\ logs = <<>>
    /\ mpc = "idle"
    /\ mq = IdleMood
    /\ mresp = NoMoodResponse
    /\ spc = "idle"
    /\ sq = IdleStats

RecNext ==
    \/ recStart
    \/ recProfile
    \/ recGenres
    \/ recSearch
    \/ recTracks

SpecRec == RecInit /\ [][RecNext]_vars

\* an entry another user stored earlier
EarlierEntry ==
    preSave(NewMoodLog("userB", S_sad, NoTracks, NoSessionData, RequestUserAgent, 0),
            TRUE, 0)

\* an entry userA stored earlier
OwnEntry ==
    preSave(NewMoodLog("userA", S_happy, NoTracks, NoSessionData, RequestUserAgent, 0),
            TRUE, 0)

\* the sessions and times at which the mood routes are examined: no session, a
\* session whose callback stored the tokens but failed to fetch the profile, a
\* session of userA; the collection is empty or holds an earlier entry
MoodInit ==
    /\ \E t \in MoodStarts :
         /\ now = t
         /\ store \in {EmptySession,
                       AuthorizedSession("at1", "rt1", t, TokenLifetime, Undefined),
                       AuthorizedSession("at1", "rt1", t, TokenLifetime, "userA")}
    /\ pc = [r \in Reqs |-> "idle"]
    /\ req = [r \in Reqs |-> IdleReq]
    /\ last = NoLast
    /\ flow = NoFlow
    /\ rpc = "idle"
    /\ rq = IdleRec
    /\ rresp = NoResponse
    /\ logs \in {<<>>, <<EarlierEntry>>, <<OwnEntry>>}
    /\ mpc = "idle"
    /\ mq = IdleMood
    /\ mresp = NoMoodResponse
    /\ spc = "idle"
    /\ sq = IdleStats

MoodNext ==
    \/ postLogStart
    \/ postLogSave
    \/ getHistory
    \/ getStats
    \/ statsQuery
    \/ MoodTick

SpecMood == MoodInit /\ [][MoodNext]_vars

\* the session states and times at which the three authentication checks are
\* compared: access token absent or present; expiry missing, not-a-number, null
\* (not-a-number read back from the session store) or a number
GuardTokens == {Undefined, "at1"}
GuardExpiries == {UndefNum, NaN, NullNum, 0, 1000}
GuardTimes == {0, 999, 1000, 1001}

GuardInit ==
    /\ \E at \in GuardTokens, expiresAt \in GuardExpiries, u \in {Undefined, "userA"} :
         store = [ClearState(EmptySession) EXCEPT !.access_token = at,
                                                  !.refresh_token =
                                                      IF at = Undefined THEN Undefined ELSE "rt1",
                                                  !.token_expires_at = expiresAt,
                                                  !.user = u]
    /\ now \in GuardTimes
    /\ pc = [r \in Reqs |-> "idle"]
    /\ req = [r \in Reqs |-> IdleReq]
    /\ last = NoLast
    /\ flow = NoFlow
    /\ rpc = "idle"
    /\ rq = IdleRec
    /\ rresp = NoResponse
    /\ logs = <<>>
    /\ mpc = "idle"
    /\ mq = IdleMood
    /\ mresp = NoMoodResponse
    /\ spc = "idle"
    /\ sq = IdleStats

\* one request to a guarded music route, one to a guarded mood route, and
\* requests to /auth/status, on the same session at the same time
GuardNext ==
    \/ \E r \in SeqReqs : authStatus(r)
    \/ getGenres
    \/ getStats
    \/ statsQuery

SpecGuards == GuardInit /\ [][GuardNext]_vars

-----------------------------------------------------------------------------
(* The authorization flow: C1 - C4 *)

\* this step completes a request of the given kind
Completes(kind) == last'.kind = kind /\ last'.flip # last.flip

\* the callback parameter `state' is absent
StateAbsent(q) == q.qstate \in {Undefined, ""}

C2_MismatchAlwaysRejected ==
    [][/\ Completes("callback") =>
            /\ (StateAbsent(last') \/ store.state \notin Tokens \/ last'.qstate # store.state)
                 => /\ last'.resp = "state_mismatch"
                    /\ last'.calls = <<>>
                    /\ store' = store
            /\ last'.resp = "access_denied"
                 => /\ store.state \in Tokens /\ last'.qstate = store.state
                    /\ last'.qcode \in {Undefined, ""}
       /\ \A r \in Reqs : pc'[r] # "idle" =>
            /\ req'[r].qstate \in Tokens
            /\ req'[r].qstate = req'[r].pre.state]_vars

C2_Witness ==
    /\ last.kind = "callback" /\ last.resp = "state_mismatch"
    /\ last.qcode = "code1" /\ last.qstate = "tX"
    /\ store.state \in Tokens

\* C3: with callbacks handled one after another, at most one callback passes
\* state validation after a /login, and a later callback carrying the issued
\* state again (no /login in between) ends with state_mismatch.
C3_ReplayNeverSucceeds ==
    /\ flow.passed <= 1
    /\ (last.kind = "callback" /\ last.nth >= 1 /\ last.qstate = flow.issued)
          => last.resp = "state_mismatch"

C3_Witness ==
    /\ last.kind = "callback" /\ last.nth = 1
    /\ last.qstate = flow.issued /\ last.qcode = "code1"
    /\ last.resp = "state_mismatch"

\* C4: a successful exchange at time t with expires_in = e stores
\* expiresAt = t + e*1000, and /auth/status reports authenticated = true exactly
\* when an access token is present and now < expiresAt, with user null when it
\* reports false.
C4_ExpiryArithmetic ==
    [][/\ \A r \in Reqs :
            (Completes("callback") /\ pc[r] = "me" /\ last'.resp = "authenticated"
               /\ req[r].e >= 0)
            => /\ store'.token_expires_at = req[r].t + req[r].e * 1000
               /\ store'.access_token = req[r].access_token
       /\ Completes("status") =>
            /\ last'.authenticated <=>
                  /\ store.access_token \in AccessTokens
                  /\ store.token_expires_at >= 0
                  /\ now < store.token_expires_at
            /\ ~last'.authenticated => last'.user = Null]_vars

C4_Witness ==
    /\ last.kind = "status" /\ last.authenticated
    /\ now = store.token_expires_at - 1

-----------------------------------------------------------------------------
(* GET /recommendations: C5 - C10 *)

\* the session holds no access token, or the token has expired
SessionInvalid ==
    \/ store.access_token \notin AccessTokens
    \/ store.token_expires_at >= 0 /\ now >= store.token_expires_at

\* the mood parameter of the answered request names one of the six labels
MoodSupported ==
    /\ rresp.mood # Absent
    /\ trim(toLowerCase(rresp.mood)) \in
          {S_happy, S_sad, S_energetic, S_relaxed, S_focused, S_romantic}

\* C5: a /recommendations request (with a supported mood) made while the session
\* has no access token or now >= expiresAt is answered 401 with the loginUrl
\* hint, and no call to the provider is made for it.
C5_RecommendationsNeedValidToken ==
    (rpc = "done" /\ SessionInvalid /\ MoodSupported)
        => rresp.status = 401 /\ rresp.loginUrl /\ rresp.calls = <<>>

\* C6: the effective limit of a request on a valid session lies in 1..50
\* whatever integer the limit parameter is, and a success response has no more
\* tracks than that limit.
C6_LimitClamped ==
    (rpc = "done" /\ ~SessionInvalid /\ rresp.built)
        => /\ rresp.paramsLimit \in 1..50
           /\ rresp.status = 200 => Len(rresp.tracks) <= rresp.paramsLimit

\* C7: on a valid session a limit that is missing, 0 or not a number gives the
\* effective limit 20; the limit 1000 gives 50.
C7_LimitDefaults ==
    (rpc = "done" /\ ~SessionInvalid /\ rresp.built)
        => /\ rresp.limit \in {Absent, <<"0">>, <<"a", "b", "c">>} => rresp.paramsLimit = 20
           /\ rresp.limit = <<"1", "0", "0", "0">> => rresp.paramsLimit = 50

\* C8: there is no empty success: every 200 response to a request on a valid
\* session carries at least one track and total >= 1.
C8_NoEmptySuccess ==
    (rpc = "done" /\ ~SessionInvalid /\ rresp.status = 200)
        => Len(rresp.tracks) >= 1 /\ rresp.total >= 1

\* C9: in every success response the track ids are pairwise distinct and real
\* ids, there are at most as many tracks as distinct ids were fetched from the
\* playlists, and total is the number of tracks.
C9_Deduplicated ==
    (rpc = "done" /\ rresp.status = 200)
        => /\ \A i, j \in 1..Len(rresp.tracks) :
                i # j => rresp.tracks[i] # rresp.tracks[j]
           /\ \A i \in 1..Len(rresp.tracks) : rresp.tracks[i] \in TrackIds
           /\ Len(rresp.tracks) <= Cardinality(rresp.fetched)
           /\ rresp.total = Len(rresp.tracks)

\* a success built from playlists that shared a track: more tracks were given
\* than distinct ids, and both distinct ids are returned
C9_Witness ==
    /\ rpc = "done" /\ rresp.status = 200
    /\ rresp.given > Cardinality(rresp.fetched)
    /\ Len(rresp.tracks) = 2

\* C10: a mood string whose trimmed, lower-cased form is none of the six labels
\* makes getMoodFeatures fail, and a request carrying it on a valid session is
\* answered 400 with the six labels as supportedMoods, without any call to the
\* provider.
C10_UnknownMoodRejected ==
    (rpc = "done" /\ ~SessionInvalid /\ rresp.mood # Absent /\ ~MoodSupported)
        => /\ getMoodFeatures(rresp.mood).threw
           /\ rresp.status = 400
           /\ rresp.supportedMoods = <<S_happy, S_sad, S_energetic, S_relaxed, S_focused,
                                       S_romantic>>
           /\ rresp.calls = <<>>

\* the calls of the answered request that the provider refused with status
Refused(kinds, statuses) ==
    {i \in 1..Len(rresp.results) :
        rresp.calls[i][1] \in kinds /\ rresp.results[i] \in statuses}

\* C11: when the provider answers 401 to the profile check, the playlist search
\* or a playlist-tracks fetch of a /recommendations request on a valid session,
\* the response is 401 with the loginUrl hint.
C11_Upstream401IsTokenExpired ==
    (rpc = "done" /\ ~SessionInvalid /\ Refused({"me", "search", "tracks"}, {401}) # {})
        => rresp.status = 401 /\ rresp.loginUrl

\* C12: when any provider call of a /recommendations request on a valid session
\* fails, the request is not answered 200, and no call is sent after the failed
\* one.
C12_FailedCallIsTerminal ==
    (rpc = "done" /\ ~SessionInvalid
       /\ Refused({"me", "genres", "search", "tracks"}, ErrorStatuses) # {})
        => /\ rresp.status # 200
           /\ \A i \in Refused({"me", "genres", "search", "tracks"}, ErrorStatuses) :
                  i = Len(rresp.calls)

-----------------------------------------------------------------------------
(* The mood profiles: C19, C20 *)

AudioFeatures ==
    {"valence", "energy", "danceability", "tempo", "acousticness",
     "instrumentalness", "speechiness"}

\* min <= target <= max for every feature of the profile that has them, and
\* the profile has a target
Ordered(profile) ==
    /\ \A f \in AudioFeatures :
         /\ {"target_" \o f, "min_" \o f} \subseteq DOMAIN profile
               => profile["min_" \o f] <= profile["target_" \o f]
         /\ {"target_" \o f, "max_" \o f} \subseteq DOMAIN profile
               => profile["target_" \o f] <= profile["max_" \o f]
    /\ \E f \in AudioFeatures : ("target_" \o f) \in DOMAIN profile

\* every canonical label resolves to an ordered profile
AllOrdered ==
    \A m \in MoodEnum : ~getMoodFeatures(m).threw /\ Ordered(getMoodFeatures(m).features)

\* C19: the profile of each of the six labels has min <= target and
\* target <= max for every feature that has both, and at least one target;
\* so has the profile a request with such a label works with.
C19_ProfilesOrdered ==
    /\ AllOrdered
    /\ (rpc = "done" /\ rresp.built /\ rresp.mood \in MoodEnum)
         => Ordered(rresp.moodFeatures)

\* a request for energetic, the label with a min and a target tempo, got its
\* profile
C19_Witness ==
    /\ rpc = "done" /\ rresp.built /\ rresp.mood = S_energetic
    /\ rresp.moodFeatures.min_tempo = 100 /\ rresp.moodFeatures.target_tempo = 120

\* the spellings of a label: any letters in upper case, whitespace around
Paddings == {<<>>, <<" ">>, <<"\t", " ">>}
Upper(c) == UpperLetters[IndexIn(c, LowerLetters, 1)]
Variants(label) ==
    {left \o [k \in 1..Len(label) |-> IF k \in U THEN Upper(label[k]) ELSE label[k]]
          \o right :
        U \in SUBSET (1..Len(label)), left \in Paddings, right \in Paddings}

\* v is a spelling of the label
IsVariant(v, label) ==
    \E i, j \in 0..2 :
        /\ Len(v) = i + Len(label) + j
        /\ \A k \in 1..Len(v) :
             IF k <= i \/ k > i + Len(label)
             THEN v[k] \in {" ", "\t"}
             ELSE v[k] \in {label[k - i], Upper(label[k - i])}

\* every spelling of a label resolves to the profile of the label
VariantsAgree ==
    \A label \in MoodEnum : \A v \in Variants(label) :
        getMoodFeatures(v) = [threw |-> FALSE, features |-> moodMap[label]]

\* C20: getMoodFeatures gives every spelling of a label (letter case, leading
\* and trailing whitespace) the profile of the label, the same at every call; a
\* request with such a spelling on a session with a token works with that
\* profile.
C20_NormalizedAndDeterministic ==
    /\ rpc = "idle" => VariantsAgree
    /\ \A label \in MoodEnum :
         (rpc = "done" /\ Truthy(store.access_token) /\ IsVariant(rresp.mood, label))
            => /\ rresp.built
               /\ rresp.moodFeatures = moodMap[label]
               /\ rresp.moodFeatures = getMoodFeatures(label).features

\* a request with mood "HAPPY " was given the profile of happy
C20_Witness ==
    /\ rpc = "done" /\ rresp.built
    /\ rresp.mood = <<"H", "A", "P", "P", "Y", " ">>
    /\ rresp.moodFeatures = moodMap[S_happy]

-----------------------------------------------------------------------------
(* The session: C14 - C16 *)

\* C14: after GET /logout, from any state, nothing is left of the session:
\* /auth/status reports false, every callback state is a state_mismatch, the
\* guards of the protected routes refuse (401), and a second logout leaves the
\* same state.
C14_LogoutDestroysSession ==
    [][Completes("logout") =>
         /\ store' = EmptySession
         /\ ~isAuthenticated(store', now')
         /\ \A qstate \in QueryStates :
               StateMismatch(OrNull(qstate), OrNull(store'.state))
         /\ ~requireAuth(store', now') /\ ~requireAuth_mood(store', now')
         /\ ~recommendationsAuth(store', now')
         /\ destroy(store') = store']_vars

\* a callback carrying the token that /login issued fails with state_mismatch
\* although no callback has used the token: a logout came between
C14_Witness ==
    /\ last.kind = "callback" /\ last.resp = "state_mismatch"
    /\ flow.issued \in Tokens /\ last.qstate = flow.issued
    /\ flow.passed = 0
    /\ store = EmptySession

\* C15: /auth/status, /recommendations and the mood routes leave the session as
\* it is; a session that is not authorized becomes authorized only in the step
\* of a /callback that ends with success; no request to the provider other than
\* the code exchange and the profile fetch is sent by the authorization flow.
C15_NoRefreshPureReads ==
    [][/\ (Completes("status") \/ recVars' # recVars \/ moodVars' # moodVars)
            => store' = store
       /\ (~isAuthenticated(store, now) /\ isAuthenticated(store', now'))
            => Completes("callback") /\ last'.resp = "authenticated"
       /\ \A r \in Reqs : Range(req'[r].calls) \subseteq {"token", "me"}]_vars

\* C16: when /login replaces a stored token t1 by another token t2, a callback
\* that follows with state t1 ends with state_mismatch and one with state t2
\* passes state validation.
C16_SecondLoginOverwrites ==
    [][(/\ AllIdle
        /\ Completes("callback") \/ (\E r \in Reqs : pc'[r] = "token")
        /\ last.kind = "login"
        /\ flow.overwrote \in Tokens /\ flow.overwrote # flow.issued)
         => /\ store.state = flow.issued
            /\ \A r \in Reqs : pc'[r] = "token" => req'[r].qstate = flow.issued
            /\ Completes("callback") =>
                 /\ last'.qstate = flow.overwrote => last'.resp = "state_mismatch"
                 /\ last'.qstate = flow.issued => last'.resp = "access_denied"]_vars

\* after tA was replaced by tB (or tB by tA), a callback with the replaced
\* token was refused
C16_Witness ==
    /\ last.kind = "callback" /\ last.resp = "state_mismatch"
    /\ flow.overwrote \in Tokens /\ flow.overwrote # flow.issued
    /\ last.qstate = flow.overwrote
    /\ flow.passed = 0 /\ store.state = flow.issued

-----------------------------------------------------------------------------
(* The mood log: C13, C17, C18 *)

\* a read request of the mood log is answered in this step
AnswersRead == mresp'.flip # mresp.flip /\ mresp'.kind \in {"history", "stats"}

InvalidMood(mood) ==
    mood.type # "string" \/ trim(toLowerCase(mood.chars)) \notin MoodEnum

\* C17: a POST /api/mood/log that has passed the auth guard and whose mood is
\* absent or not one of the six labels, or whose session has no user id, is
\* answered 400 and stores nothing; every stored entry has a userId and a mood
\* that is one of the six labels.
C17_ValidatesBeforeStoring ==
    /\ (mresp.kind = "log" /\ mresp.status # 401
          /\ (InvalidMood(mresp.mood) \/ ~Truthy(mresp.userId)))
         => mresp.status = 400 /\ mresp.doc = NoDoc
    /\ \A i \in 1..Len(logs) : Truthy(logs[i].userId) /\ logs[i].mood \in MoodEnum

\* C18: a step neither changes nor removes an entry of the collection, and
\* every entry has dayOfWeek in 0..6 and hourOfDay in 0..23, the day and hour
\* of its own timestamp.
C18_AppendOnlyDerivedFields ==
    [][/\ Len(logs') >= Len(logs)
       /\ \A i \in 1..Len(logs) : logs'[i] = logs[i]
       /\ \A i \in 1..Len(logs') :
            /\ logs'[i].dayOfWeek \in 0..6 /\ logs'[i].hourOfDay \in 0..23
            /\ logs'[i].dayOfWeek = getDay(logs'[i].timestamp)
            /\ logs'[i].hourOfDay = getHours(logs'[i].timestamp)]_vars

\* an entry of userA built on Saturday in hour 23 still has Saturday and 23 on
\* Sunday, after a read request of its owner succeeded
C18_Witness ==
    /\ \E i \in 1..Len(logs) :
         /\ logs[i].userId = "userA"
         /\ logs[i].dayOfWeek = 6 /\ logs[i].hourOfDay = 23
         /\ getDay(now) = 0
    /\ mresp.kind \in {"history", "stats"} /\ mresp.status = 200

-----------------------------------------------------------------------------
(* The history pages: C21 *)

\* the number of positions of a at which e stands
Occurrences(a, e) == Cardinality({i \in 1..Len(a) : a[i] = e})

\* the entries of the collection that the filters of the answered history
\* request match
HistoryMatches ==
    SelectSeq(logs,
              LAMBDA e : /\ e.userId = mresp.userId
                         /\ mresp.query.mood # Absent => e.mood = mresp.query.mood
                         /\ mresp.query.since # UndefNum => e.timestamp >= mresp.query.since)

\* a successful history response for a positive page and page size
PagedHistory ==
    /\ mresp.kind = "history" /\ mresp.status = 200
    /\ mresp.query.page >= 1 /\ mresp.query.limit >= 1

-----------------------------------------------------------------------------
(* Authorization only through the flow, failed callbacks: C22, C24 *)

\* the tokens and expiry of a session
Authorization(sess) ==
    <<sess.access_token, sess.refresh_token, sess.token_expires_at>>

C24_FailedCallbackChangesNothing ==
    [][/\ (Completes("callback") /\ last'.resp = "invalid_token")
            => /\ Authorization(store') = Authorization(store)
               /\ store'.user = store.user
       /\ Truthy(store'.access_token) => Truthy(store'.user)]_vars

-----------------------------------------------------------------------------
(* Requests with overlapping lifetimes: C23, C25 *)

\* C23: every callback that passed state validation and is performing its
\* token exchange or profile fetch was the first to pass validation since the
\* /login that issued its token, also when callbacks overlap.
C23_SingleUseUnderConcurrency ==
    \A r \in Reqs : pc[r] # "idle" => req[r].nth = 0

\* C25: when the last request completed before a callback finishes is a /logout
\* (the callback was in flight when the logout completed), the session holds no
\* access token once nothing is in flight, and /auth/status would report false.
C25_LogoutWinsOverInFlightLogin ==
    [][(last.kind = "logout" /\ Completes("callback") /\ AllIdle')
         => /\ ~Truthy(store'.access_token)
            /\ ~isAuthenticated(store', now')]_vars

-----------------------------------------------------------------------------
(* The three authentication checks: C26 *)

-----------------------------------------------------------------------------
(* The playlists fetched and the tracks returned: C27 *)

\* a search result with an id, a name and an owner
Complete(p) == ~p.null /\ p.id # Null /\ p.name # Null /\ p.owner # Null

\* the position in items of its k-th complete search result
NthComplete(items, k) ==
    CHOOSE j \in 1..Len(items) :
        Complete(items[j]) /\ Cardinality({i \in 1..j : Complete(items[i])}) = k

\* the playlists chosen from a search result are its first complete ones, three
\* at most, in the order of the result
ChosenInOrder(items) ==
    LET chosen == playlistsToCheckOf(items)
        complete == Cardinality({i \in 1..Len(items) : Complete(items[i])})
    IN  /\ Len(chosen) = Min(complete, 3)
        /\ \A k \in 1..Len(chosen) : chosen[k] = items[NthComplete(items, k)]

\* the track requests among the calls of a request
TrackCalls(calls) == SelectSeq(calls, LAMBDA c : c[1] = "tracks")

-----------------------------------------------------------------------------
(* The search phrase: C28 *)

\* the playlist searches among the calls of a request
SearchCalls(calls) == SelectSeq(calls, LAMBDA c : c[1] = "search")

\* C28: for a mood parameter that resolves to one of the six labels (any case,
\* any surrounding whitespace), the phrase of the playlist search is the first
\* phrase of that label's list.
C28_PhraseFollowsLabel ==
    \A c \in Range(SearchCalls(rq.calls)) \cup Range(SearchCalls(rresp.calls)) :
        LET mood == IF rpc = "done" THEN rresp.mood ELSE rq.mood
            label == trim(toLowerCase(mood))
        IN  (mood # Absent /\ label \in DOMAIN searchQueries)
                => c[2] = searchQueries[label][1]

-----------------------------------------------------------------------------
(* The session metrics of a stored entry: C29 *)

\* C29: in every stored entry, sessionData.trackCount is the number of
\* recommendedTracks stored in it and sessionData.userAgent is the User-Agent
\* header of the request that stored it.
C29_MetricsFromRequest ==
    \A i \in 1..Len(logs) :
        /\ logs[i].sessionData.trackCount = Len(logs[i].recommendedTracks)
        /\ logs[i].sessionData.userAgent = RequestUserAgent

-----------------------------------------------------------------------------
(* The stats response: C30 *)

RECURSIVE SumCounts(_)
\* the sum of the counts of a set of groups
SumCounts(groups) ==
    IF groups = {} THEN 0
    ELSE LET g == CHOOSE g \in groups : TRUE
         IN  g.count + SumCounts(groups \ {g})

\* C30: in every successful stats response totalMoodLogs is the sum of the
\* counts by mood, by day of the week and by hour of the day; moodCounts is
\* sorted by count descending and mostCommonMood is its first mood (null when
\* there is none), also when log requests of the same user are interleaved with
\* the queries.
C30_StatsSnapshot ==
    (mresp.kind = "stats" /\ mresp.status = 200) =>
        /\ mresp.totalCount = SumCounts(Range(mresp.moodCounts))
        /\ mresp.totalCount = SumCounts(mresp.dayOfWeek)
        /\ mresp.totalCount = SumCounts(mresp.hourOfDay)
        /\ \A i, j \in 1..Len(mresp.moodCounts) :
              i < j => mresp.moodCounts[i].count >= mresp.moodCounts[j].count
        /\ mresp.mostCommonMood = IF mresp.moodCounts = <<>> THEN Null
                                  ELSE mresp.moodCounts[1]._id

====
